---- MODULE Spec2Model ----
(***************************************************************************)
(* Synthetic multi-timeframe candle engine (src/synthetic_engine.py) and   *)
(* the table of timeframes it is constructed with (src/sidecar.py).        *)
(*                                                                         *)
(* Values.  A Python float is a record [nan, v]: either the not-a-number   *)
(* value or the number v.  An optional value (None or a number) is a       *)
(* record [some, v].  A naive datetime is a record [ord, sod]: the day     *)
(* number of its calendar date (days since 1970-01-01) and its second of   *)
(* the day.                                                                *)
(***************************************************************************)
EXTENDS Integers, Sequences, FiniteSets, TLC

VARIABLES
    tz,          \* UTC offset (seconds east) of the process's local time zone
    constructed, \* whether SyntheticEngine.__init__ has run
    tf_configs,  \* SyntheticEngine.tf_configs, in insertion order
    state,       \* SyntheticEngine.state: symbol -> (tf name -> bar)
    call,        \* the arguments of the last ingest_tick call
    raised,      \* the exception the last ingest_tick call ended with, or "none"
    nticks,      \* number of ingest_tick calls made
    rq,          \* the last bucket-resolver query
    r1,          \* its result for rq.t1
    r2,          \* its result for rq.t2
    candle,      \* a SyntheticCandle on its own
    applied,     \* the (price, volume) arguments candle was created and updated with
    view,        \* the last get_candle / to_dict call and what it returned
    SUBS,        \* sidecar.SUBS: the symbols to track
    pending_subs,\* sidecar.pending_subs: the queue of subscribe commands
    tick,        \* sidecar.tick: latest tick per symbol
    ws,          \* the frame of the ws_loop coroutine, and what it has sent
    resp         \* the last HTTP request since a message arrived, and its response

vars == <<tz, constructed, tf_configs, state, call, raised, nticks, rq, r1, r2,
         candle, applied, view, SUBS, pending_subs, tick, ws, resp>>

sidecarVars == <<SUBS, pending_subs, tick, ws, resp>>

engineVars == <<constructed, tf_configs, state, call, raised, nticks>>

resolverVars == <<rq, r1, r2>>

-----------------------------------------------------------------------------
(* Bounds of the model *)

\* ingest_tick calls per run
MaxTicks == 3

\* update calls on one candle
MaxUpdates == 2

\* latest timestamp resolved (late in 2029: bounds stay below 2^31)
MaxTimestamp == 1893000000

-----------------------------------------------------------------------------
(* Python values *)

None == [some |-> FALSE, v |-> 0]

Some(n) == [some |-> TRUE, v |-> n]

NaN == [nan |-> TRUE, v |-> 0]

Num(n) == [nan |-> FALSE, v |-> n]

\* float comparison: every comparison with NaN is false
FGt(a, b) == ~a.nan /\ ~b.nan /\ a.v > b.v

FLt(a, b) == ~a.nan /\ ~b.nan /\ a.v < b.v

\* Python's a % b for b # 0: the result has the sign of b
PyMod(a, b) == IF b > 0 THEN a % b ELSE 0 - ((0 - a) % (0 - b))

\* Python's a // b for b # 0: floor division
PyFloorDiv(a, b) == IF b > 0 THEN a \div b ELSE (0 - a) \div (0 - b)

-----------------------------------------------------------------------------
(* datetime: the proleptic Gregorian calendar *)

SecondsPerDay == 86400

\* day number (days since 1970-01-01) of the civil date y-m-d
DaysFromCivil(y, m, d) ==
    LET yy  == IF m <= 2 THEN y - 1 ELSE y
        era == yy \div 400
        yoe == yy - era * 400
        mp  == (m + 9) % 12
        doy == (153 * mp + 2) \div 5 + d - 1
        doe == yoe * 365 + yoe \div 4 - yoe \div 100 + doy
    IN  era * 146097 + doe - 719468

\* civil date of a day number
CivilFromDays(z0) ==
    LET z   == z0 + 719468
        era == z \div 146097
        doe == z - era * 146097
        yoe == (doe - doe \div 1460 + doe \div 36524 - doe \div 146096) \div 365
        doy == doe - (365 * yoe + yoe \div 4 - yoe \div 100)
        mp  == (5 * doy + 2) \div 153
        d   == doy - (153 * mp + 2) \div 5 + 1
        m   == IF mp < 10 THEN mp + 3 ELSE mp - 9
        y   == yoe + era * 400 + (IF m <= 2 THEN 1 ELSE 0)
    IN  [year |-> y, month |-> m, day |-> d]

\* datetime(y, m, d)
Datetime(y, m, d) == [year |-> y, month |-> m, day |-> d, sod |-> 0]

\* datetime.utcfromtimestamp(ts): the naive datetime of ts in UTC
UtcFromTimestamp(ts) ==
    LET date == CivilFromDays(ts \div SecondsPerDay)
    IN  [year |-> date.year, month |-> date.month, day |-> date.day,
         sod |-> ts % SecondsPerDay]

\* dt.toordinal(), counted from 1970-01-01
Ordinal(dt) == DaysFromCivil(dt.year, dt.month, dt.day)

\* dt.weekday(): Monday is 0; 1970-01-01 was a Thursday
Weekday(dt) == (Ordinal(dt) + 3) % 7

\* dt.replace(hour=0, minute=0, second=0, microsecond=0)
ReplaceMidnight(dt) == [dt EXCEPT !.sod = 0]

\* dt + timedelta(days=n)
AddDays(dt, n) ==
    LET date == CivilFromDays(Ordinal(dt) + n)
    IN  [year |-> date.year, month |-> date.month, day |-> date.day, sod |-> dt.sod]

\* naive.timestamp(): a naive datetime is read as LOCAL time (offset east of UTC)
Timestamp(dt, offset) == Ordinal(dt) * SecondsPerDay + dt.sod - offset

-----------------------------------------------------------------------------
(* TimeframeConfig and the reference table *)

TimeframeConfig(name, kind, size_seconds, calendar_type, years_span) ==
    [name |-> name, kind |-> kind, size_seconds |-> size_seconds,
     calendar_type |-> calendar_type, years_span |-> years_span]

Duration(name, size) == TimeframeConfig(name, "duration", Some(size), "none", None)

Calendar(name, unit) == TimeframeConfig(name, "calendar", None, unit, None)

MultiYear(name, span) == TimeframeConfig(name, "calendar", None, "multi-year", Some(span))

TF_CONFIGS ==
    << Duration("1s", 1), Duration("2s", 2), Duration("5s", 5), Duration("10s", 10),
       Duration("12s", 12), Duration("30s", 30),
       Duration("1m", 60), Duration("5m", 300), Duration("15m", 900), Duration("1h", 3600),
       Calendar("day", "day"), Calendar("week", "week"), Calendar("month", "month"),
       Calendar("quarter", "quarter"), Calendar("year", "year"),
       MultiYear("2y", 2), MultiYear("5y", 5), MultiYear("10y", 10) >>

-----------------------------------------------------------------------------
(* Bucket resolver.  A result is [raised, start_ts, end_ts]; raised names  *)
(* the exception the call ended with, "none" when it returned.             *)

Bounds(s, e) == [raised |-> "none", start_ts |-> s, end_ts |-> e]

Raise(x) == [raised |-> x, start_ts |-> 0, end_ts |-> 0]

\* a slip: the remainder taken as C does (toward zero), wrong before the epoch
BoundsDuration_TruncMod(ts, size_seconds) ==
    LET rem      == IF ts.v >= 0 THEN ts.v % size_seconds.v
                    ELSE 0 - ((0 - ts.v) % size_seconds.v)
        start_ts == ts.v - rem
    IN  Bounds(start_ts, start_ts + size_seconds.v)

\* _bounds_duration: ts is a number or NaN, size_seconds is what the config holds
BoundsDuration(ts, size_seconds) ==
    IF ~size_seconds.some THEN Raise("TypeError")
    ELSE IF size_seconds.v = 0 THEN Raise("ZeroDivisionError")
    ELSE IF ts.nan THEN Raise("ValueError")
    ELSE LET start_ts == ts.v - PyMod(ts.v, size_seconds.v)
             end_ts   == start_ts + size_seconds.v
         IN  Bounds(start_ts, end_ts)

\* the (start, end) naive datetimes _bounds_calendar picks for dt
CalendarInterval(dt, cfg) ==
    IF cfg.calendar_type = "day" THEN
        LET start == ReplaceMidnight(dt)
        IN  <<start, AddDays(start, 1)>>
    ELSE IF cfg.calendar_type = "week" THEN
        LET start_day == AddDays(dt, 0 - Weekday(dt))
            start     == ReplaceMidnight(start_day)
        IN  <<start, AddDays(start, 7)>>
    ELSE IF cfg.calendar_type = "month" THEN
        <<Datetime(dt.year, dt.month, 1),
          IF dt.month = 12 THEN Datetime(dt.year + 1, 1, 1)
                            ELSE Datetime(dt.year, dt.month + 1, 1)>>
    ELSE IF cfg.calendar_type = "quarter" THEN
        LET q_index     == (dt.month - 1) \div 3
            first_month == 1 + 3 * q_index
            end_month   == first_month + 3
        IN  <<Datetime(dt.year, first_month, 1),
              IF end_month > 12 THEN Datetime(dt.year + 1, end_month - 12, 1)
                                ELSE Datetime(dt.year, end_month, 1)>>
    ELSE IF cfg.calendar_type = "year" THEN
        <<Datetime(dt.year, 1, 1), Datetime(dt.year + 1, 1, 1)>>
    ELSE IF cfg.calendar_type = "multi-year" /\ cfg.years_span.some /\ cfg.years_span.v # 0 THEN
        LET span      == cfg.years_span.v
            base_year == PyFloorDiv(dt.year, span) * span
        IN  <<Datetime(base_year, 1, 1), Datetime(base_year + span, 1, 1)>>
    ELSE
        \* fallback: treat as a 1-year bar
        <<Datetime(dt.year, 1, 1), Datetime(dt.year + 1, 1, 1)>>

\* _bounds_calendar
BoundsCalendar(ts, cfg) ==
    IF ts.nan THEN Raise("ValueError")
    ELSE LET iv == CalendarInterval(UtcFromTimestamp(ts.v), cfg)
         IN  Bounds(Timestamp(iv[1], tz), Timestamp(iv[2], tz))

\* _bounds_for_tf
BoundsForTf(ts, cfg) ==
    IF cfg.kind = "duration" THEN BoundsDuration(ts, cfg.size_seconds)
    ELSE BoundsCalendar(ts, cfg)

-----------------------------------------------------------------------------
(* SyntheticCandle *)

\* float(volume or 0.0)
VolumeOrZero(volume) == IF volume.some THEN volume.v ELSE 0

\* SyntheticCandle.__init__
SyntheticCandle(start_ts, end_ts, price, volume) ==
    [start_ts |-> start_ts, end_ts |-> end_ts,
     o |-> price, h |-> price, l |-> price, c |-> price,
     v |-> VolumeOrZero(volume)]

\* a slip: update moves the high but forgets the low
Update_LowForgotten(bar, price, volume) ==
    [bar EXCEPT !.c = price,
                !.h = IF FGt(price, bar.h) THEN price ELSE bar.h,
                !.v = bar.v + VolumeOrZero(volume)]

\* SyntheticCandle.update
Update(bar, price, volume) ==
    [bar EXCEPT !.c = price,
                !.h = IF FGt(price, bar.h) THEN price ELSE bar.h,
                !.l = IF FLt(price, bar.l) THEN price ELSE bar.l,
                !.v = bar.v + VolumeOrZero(volume)]

-----------------------------------------------------------------------------
(* SyntheticEngine *)

EmptyDict == << >>

\* a slip: the assignment replaces the dict, dropping every other key
SetItem_Clobber(d, k, v) == (k :> v)

\* d[k] = v on a dict
SetItem(d, k, v) == (k :> v) @@ d

\* d[cfg.name] = cfg on the ordered dict of configs: a name already present
\* keeps its place and takes the new value.  (d0 is evaluated once and bound to d.)
PutConfig(d0, cfg) ==
    CHOOSE r \in
        { IF \E j \in 1..Len(d) : d[j].name = cfg.name
          THEN [j \in 1..Len(d) |-> IF d[j].name = cfg.name THEN cfg ELSE d[j]]
          ELSE Append(d, cfg) : d \in {d0} } : TRUE

\* {cfg.name: cfg for cfg in tf_configs}, over the first n entries of the list
RECURSIVE ConfigDict(_, _)
ConfigDict(list, n) == IF n = 0 THEN << >> ELSE PutConfig(ConfigDict(list, n - 1), list[n])

\* self.state[symbol] on the defaultdict(dict): a missing key is created
GetOrCreate(st, symbol) == IF symbol \in DOMAIN st THEN st ELSE SetItem(st, symbol, EmptyDict)

\* a slip: a new bar only when the slot is empty, so a held bar never rolls over
NeedsNewBar_NeverRolls(sym_state, tf_name, b) == tf_name \notin DOMAIN sym_state

\* a slip: a new bar only for a later bucket, so a late tick merges into the held bar
NeedsNewBar_ForwardOnly(sym_state, tf_name, b) ==
    \/ tf_name \notin DOMAIN sym_state
    \/ sym_state[tf_name].start_ts < b.start_ts

\* whether ingest_tick starts a new bar in a slot: none held, or boundaries changed
NeedsNewBar(sym_state, tf_name, b) ==
    \/ tf_name \notin DOMAIN sym_state
    \/ sym_state[tf_name].start_ts # b.start_ts
    \/ sym_state[tf_name].end_ts # b.end_ts

\* a slip: the new bar keeps the bounds of the bar it replaces
BarAfter_StaleBounds(sym_state, cfg, b, price, volume) ==
    IF cfg.name \notin DOMAIN sym_state
    THEN SyntheticCandle(b.start_ts, b.end_ts, price, volume)
    ELSE IF NeedsNewBar(sym_state, cfg.name, b)
    THEN SyntheticCandle(sym_state[cfg.name].start_ts, sym_state[cfg.name].end_ts, price, volume)
    ELSE Update(sym_state[cfg.name], price, volume)

\* the bar one iteration of ingest_tick's loop leaves in the slot of cfg, the
\* bounds b having been resolved
BarAfter(sym_state, cfg, b, price, volume) ==
    IF NeedsNewBar(sym_state, cfg.name, b)
    THEN SyntheticCandle(b.start_ts, b.end_ts, price, volume)
    ELSE Update(sym_state[cfg.name], price, volume)

\* the resolved bounds of ts for every configured timeframe, in loop order
AllBounds(ts) == [i \in 1..Len(tf_configs) |-> BoundsForTf(ts, tf_configs[i])]

\* the first iteration whose bounds raise: the loop ends there, having run the
\* iterations before it (Len + 1: the loop runs to its end)
StopsAt(bs) ==
    IF \A i \in 1..Len(bs) : bs[i].raised = "none" THEN Len(bs) + 1
    ELSE CHOOSE i \in 1..Len(bs) :
            /\ bs[i].raised # "none"
            /\ \A j \in 1..(i - 1) : bs[j].raised = "none"

\* ingest_tick's loop over tf_configs.items().  Names are dict keys, so every
\* iteration writes a slot of its own: the loop is the map of BarAfter over the
\* iterations that ran.  The result is [state, raised].  (The bounds are
\* resolved once and bound to bs.)
IngestLoop(symbol, price, volume, ts) ==
    CHOOSE r \in
        { LET stop == StopsAt(bs)
              st   == GetOrCreate(state, symbol)
              ran  == {tf_configs[i].name : i \in 1..(stop - 1)}
          IN  [state  |-> IF stop = 1 THEN state
                          ELSE SetItem(st, symbol,
                                 [n \in DOMAIN st[symbol] \cup ran |->
                                    IF n \in ran
                                    THEN LET i == CHOOSE i \in 1..(stop - 1) :
                                                      tf_configs[i].name = n
                                         IN  BarAfter(st[symbol], tf_configs[i], bs[i],
                                                      price, volume)
                                    ELSE st[symbol][n]]),
               raised |-> IF stop > Len(bs) THEN "none" ELSE bs[stop].raised]
          : bs \in {AllBounds(ts)} } : TRUE

NoCall == [op |-> "none", symbol |-> "", price |-> NaN, volume |-> None, ts |-> NaN]

\* SyntheticEngine.ingest_tick(symbol, price, volume, ts)
IngestTick(symbol, price, volume, ts) ==
    /\ constructed
    /\ nticks < MaxTicks
    /\ \E e \in { IF Len(tf_configs) = 0 THEN [state |-> state, raised |-> "none"]
                   ELSE IngestLoop(symbol, price, volume, ts) } :
          /\ state' = e.state
          /\ raised' = e.raised
    /\ call' = [op |-> "ingest_tick", symbol |-> symbol, price |-> price,
                volume |-> volume, ts |-> ts]
    /\ nticks' = nticks + 1
    /\ UNCHANGED <<tz, constructed, tf_configs, rq, r1, r2, candle, applied, view, sidecarVars>>

-----------------------------------------------------------------------------
(* The engine as the sidecar runs it: constructed with TF_CONFIGS and fed   *)
(* whatever the feed delivers (json.loads accepts NaN and negative numbers).*)

Symbols == {"AAPL", "QQQ"}

Tick(price, volume, ts) == [price |-> price, volume |-> volume, ts |-> ts]

\* 2024-12-31T23:59:59Z and 2025-01-01T00:00:00Z
T1 == Num(1735689599)

T2 == Num(1735689600)

WellFormedTicks ==
    {Tick(Num(100), None, T1), Tick(Num(105), Some(2), T1), Tick(Num(95), Some(3), T2)}

\* a non-finite price, a negative volume, a timestamp that is not a number
MalformedTicks ==
    {Tick(NaN, Some(2), T1), Tick(Num(100), Some(-2), T2), Tick(Num(105), Some(3), NaN)}

Ticks == WellFormedTicks \cup MalformedTicks

TzOffsets == {0, 7200, -18000}

NoQuery == [t1 |-> 0, t2 |-> 0, cfg |-> Calendar("none", "none")]

ResolverIdle == rq = NoQuery /\ r1 = Raise("none") /\ r2 = Raise("none")

CandleIdle == candle = SyntheticCandle(0, 0, NaN, None) /\ applied = << >>

NoDict ==
    [t |-> [year |-> 0, month |-> 0, day |-> 0, hour |-> 0, minute |-> 0, second |-> 0],
     o |-> NaN, h |-> NaN, l |-> NaN, c |-> NaN, v |-> 0,
     elapsed |-> 0, remaining |-> 0, complete |-> FALSE]

\* a call that returned None
NoneDict == [some |-> FALSE, d |-> NoDict]

NoView == [op |-> "none", symbol |-> "", tf_name |-> "", now_ts |-> None, wall |-> 0,
           at |-> 0, result |-> NoneDict]

QueryIdle == view = NoView

NoCmd == [type |-> "none", symbol |-> ""]

NoBar == SyntheticCandle(0, 0, NaN, None)

\* ws_loop before its first connect: nothing dequeued, nothing sent.  Beside
\* the coroutine's locals (todo: the rest of list(SUBS); cmd; data: the rest of
\* the message; sym, px, vol, ts: the tick in hand; i, f: the timeframe and the
\* statement of update the engine is at) the frame records what went over the
\* socket: conn counts connections, nrecv messages, at_connect is SUBS as it
\* was at connect time, sent the symbols subscribed on this connection, failed
\* the symbols whose dequeued command was not sent, pre the bar update began on.
WsIdle ==
    [pc |-> "connect", conn |-> 0, nrecv |-> 0, at_connect |-> {}, todo |-> {},
     sent |-> {}, failed |-> {}, cmd |-> NoCmd, data |-> << >>,
     sym |-> "", px |-> NaN, vol |-> None, ts |-> NaN, i |-> 0, f |-> 0,
     pre |-> NoBar]

NoResp == [op |-> "none", symbol |-> "", tfs |-> << >>, wall |-> 0, status |-> 0,
           body |-> << >>]

SidecarIdle ==
    /\ SUBS = {}
    /\ pending_subs = << >>
    /\ tick = << >>
    /\ ws = WsIdle
    /\ resp = NoResp

Init ==
    /\ tz \in TzOffsets
    /\ constructed = TRUE
    /\ tf_configs = ConfigDict(TF_CONFIGS, Len(TF_CONFIGS))
    /\ state = EmptyDict
    /\ call = NoCall
    /\ raised = "none"
    /\ nticks = 0
    /\ ResolverIdle
    /\ CandleIdle
    /\ QueryIdle
    /\ SidecarIdle

Next ==
    \E symbol \in Symbols, t \in Ticks : IngestTick(symbol, t.price, t.volume, t.ts)

Spec == Init /\ [][Next]_vars

-----------------------------------------------------------------------------
(* Properties of ingest_tick *)

\* the step is an ingest_tick call
IsIngest == call'.op = "ingest_tick" /\ nticks' = nticks + 1

Held(st, symbol, tf_name) == symbol \in DOMAIN st /\ tf_name \in DOMAIN st[symbol]

\* C1: a tick whose resolved bounds differ from the held bar's (or that finds
\* no bar) leaves a fresh bar seeded by the tick alone; otherwise the held bar
\* is updated in place; and a bar changes only by a tick for its symbol.
C1_RolloverOnlyByTick ==
    [][ /\ IsIngest =>
           \A i \in 1..Len(tf_configs) :
              LET cfg  == tf_configs[i]
                  b    == BoundsForTf(call'.ts, cfg)
                  sym  == call'.symbol
                  vol  == IF call'.volume.some THEN call'.volume.v ELSE 0
              IN  b.raised = "none" =>
                    /\ Held(state', sym, cfg.name)
                    /\ IF \/ ~Held(state, sym, cfg.name)
                          \/ <<state[sym][cfg.name].start_ts, state[sym][cfg.name].end_ts>>
                                # <<b.start_ts, b.end_ts>>
                       THEN state'[sym][cfg.name] =
                              [start_ts |-> b.start_ts, end_ts |-> b.end_ts,
                               o |-> call'.price, h |-> call'.price,
                               l |-> call'.price, c |-> call'.price, v |-> vol]
                       ELSE LET old == state[sym][cfg.name]
                                new == state'[sym][cfg.name]
                            IN  /\ new.start_ts = old.start_ts /\ new.end_ts = old.end_ts
                                /\ new.o = old.o
                                /\ new.c = call'.price
                                /\ new.v = old.v + vol
                                /\ new.h = IF ~call'.price.nan /\ ~old.h.nan /\ call'.price.v > old.h.v
                                           THEN call'.price ELSE old.h
                                /\ new.l = IF ~call'.price.nan /\ ~old.l.nan /\ call'.price.v < old.l.v
                                           THEN call'.price ELSE old.l
        /\ \A s \in DOMAIN state :
              /\ s \in DOMAIN state'
              /\ \A n \in DOMAIN state[s] :
                    /\ n \in DOMAIN state'[s]
                    /\ state'[s][n] # state[s][n] => IsIngest /\ call'.symbol = s
      ]_vars

\* a symbol holds, after two ticks, a "1s" bar opened by the second tick alone
\* and a "week" bar that the second tick updated in place
C1_Witness ==
    \E s \in DOMAIN state :
        /\ Held(state, s, "1s") /\ Held(state, s, "week")
        /\ state[s]["1s"].o = Num(95) /\ state[s]["1s"].v = 3
        /\ state[s]["week"].o = Num(100) /\ state[s]["week"].c = Num(95)
        /\ state[s]["week"].start_ts # state[s]["1s"].start_ts

\* what the spec calls a malformed tick
Malformed(t) == t.price.nan \/ (t.volume.some /\ t.volume.v < 0) \/ t.ts.nan

\* C2: a malformed tick (non-finite price, negative volume, timestamp that is
\* not a valid integer) is rejected all-or-nothing: the call leaves every bar
\* unchanged and ends with an error reported to the caller.
C2_MalformedTickRejected ==
    [][ (IsIngest /\ Malformed(call')) => (state' = state /\ raised' # "none") ]_vars

\* a <= b on floats: false when either is NaN
FLe(a, b) == ~a.nan /\ ~b.nan /\ a.v <= b.v

\* C3: every stored bar satisfies low <= open <= high and low <= close <= high.
C3_BarOrdering ==
    \A s \in DOMAIN state : \A n \in DOMAIN state[s] :
        LET bar == state[s][n]
        IN  /\ FLe(bar.l, bar.o) /\ FLe(bar.o, bar.h)
            /\ FLe(bar.l, bar.c) /\ FLe(bar.c, bar.h)

\* C4: every stored bar has volume >= 0, and while a bar is held (not replaced)
\* its volume never decreases from one ingest_tick call to the next.
C4_VolumeMonotone ==
    [][ \A s \in DOMAIN state' : \A n \in DOMAIN state'[s] :
           /\ state'[s][n].v >= 0
           /\ ( /\ Held(state, s, n)
                /\ state[s][n].start_ts = state'[s][n].start_ts
                /\ state[s][n].end_ts = state'[s][n].end_ts )
              => state'[s][n].v >= state[s][n].v ]_vars

\* C12: a tick that resolves to an earlier bucket than the held bar's opens a
\* new bar for that earlier bucket seeded by that tick alone, and a later tick
\* that falls back in the bucket held before finds nothing of it: it starts a
\* fresh bar whose open and volume are its own.
C12_OutOfOrderDiscards ==
    [][ IsIngest =>
          \A i \in 1..Len(tf_configs) :
             LET cfg == tf_configs[i]
                 b   == BoundsForTf(call'.ts, cfg)
                 sym == call'.symbol
                 vol == IF call'.volume.some THEN call'.volume.v ELSE 0
             IN  ( /\ b.raised = "none"
                   /\ Held(state, sym, cfg.name)
                   /\ \/ b.start_ts < state[sym][cfg.name].start_ts
                      \/ b.start_ts > state[sym][cfg.name].start_ts )
                 => /\ state'[sym][cfg.name].start_ts = b.start_ts
                    /\ state'[sym][cfg.name].end_ts = b.end_ts
                    /\ state'[sym][cfg.name].o = call'.price
                    /\ state'[sym][cfg.name].h = call'.price
                    /\ state'[sym][cfg.name].l = call'.price
                    /\ state'[sym][cfg.name].v = vol
      ]_vars

\* ticks (95, 3) at T2, (105, 2) at T1, (95, 3) at T2 for one symbol: the week
\* bar holds all three, the "1s" bar of T2 holds the last one only
C12_Witness ==
    \E s \in DOMAIN state :
        /\ nticks = 3 /\ call.symbol = s /\ call.ts = T2
        /\ Held(state, s, "week") /\ Held(state, s, "1s")
        /\ state[s]["week"].o = Num(95) /\ state[s]["week"].h = Num(105)
        /\ state[s]["week"].c = Num(95) /\ state[s]["week"].v = 8
        /\ state[s]["1s"].start_ts = T2.v
        /\ state[s]["1s"].o = Num(95) /\ state[s]["1s"].v = 3

\* C17: an ingest_tick call for one symbol, whether it returns or raises,
\* leaves every bar of every other symbol and the descriptor table unchanged.
C17_OtherSymbolsUntouched ==
    [][ IsIngest =>
          /\ tf_configs' = tf_configs
          /\ \A s \in DOMAIN state :
                s # call'.symbol => (s \in DOMAIN state' /\ state'[s] = state[s])
          /\ DOMAIN state' \subseteq DOMAIN state \cup {call'.symbol}
      ]_vars

\* a tick for AAPL has raised half way through the timeframes ("1m" written,
\* "day" not reached) while QQQ holds a bar
C17_Witness ==
    /\ raised = "ZeroDivisionError" /\ call.symbol = "AAPL"
    /\ Held(state, "AAPL", "1m") /\ ~Held(state, "AAPL", "day")
    /\ Held(state, "QQQ", "1m") /\ state["QQQ"]["1m"].c = Num(95)

ConfiguredNames == {tf_configs[i].name : i \in 1..Len(tf_configs)}

\* C18: with at least one timeframe configured, a completed ingest_tick call
\* leaves its symbol with exactly one bar for every configured timeframe, each
\* with the bounds resolved for the tick's timestamp and close = the tick's
\* price; every other step leaves a symbol's bars as they were, so a symbol
\* holds no bar at all or the bars of its most recent completed tick.
C18_AllTimeframesFollowLastTick ==
    [][ /\ (IsIngest /\ raised' = "none" /\ Len(tf_configs) >= 1) =>
              /\ call'.symbol \in DOMAIN state'
              /\ DOMAIN state'[call'.symbol] = ConfiguredNames
              /\ \A i \in 1..Len(tf_configs) :
                    LET b   == BoundsForTf(call'.ts, tf_configs[i])
                        bar == state'[call'.symbol][tf_configs[i].name]
                    IN  /\ bar.start_ts = b.start_ts
                        /\ bar.end_ts = b.end_ts
                        /\ bar.c = call'.price
        /\ \A s \in DOMAIN state' :
              \/ DOMAIN state'[s] = {}
              \/ DOMAIN state'[s] = ConfiguredNames
        /\ \A s \in DOMAIN state :
              (~IsIngest \/ raised' # "none" \/ call'.symbol # s) =>
                  (s \in DOMAIN state' /\ state'[s] = state[s])
      ]_vars

\* AAPL was last ticked at T2 and QQQ at T1: each holds all eighteen bars, on
\* the buckets of its own last tick
C18_Witness ==
    /\ Held(state, "AAPL", "1s") /\ Held(state, "QQQ", "1s")
    /\ Cardinality(DOMAIN state["AAPL"]) = 18 /\ Cardinality(DOMAIN state["QQQ"]) = 18
    /\ state["AAPL"]["1s"].start_ts = T2.v /\ state["AAPL"]["1s"].c = Num(95)
    /\ state["QQQ"]["1s"].start_ts = T1.v /\ state["QQQ"]["1s"].c = Num(105)
    /\ state["AAPL"]["10y"].start_ts = state["QQQ"]["10y"].start_ts

-----------------------------------------------------------------------------
(* SyntheticCandle on its own: one bar, created and then updated *)

Prices == {Num(95), Num(100), Num(105), NaN}

Volumes == {None, Some(2), Some(3), Some(-2)}

EngineIdle ==
    /\ tz = 0
    /\ constructed = FALSE
    /\ tf_configs = << >>
    /\ state = EmptyDict
    /\ call = NoCall
    /\ raised = "none"
    /\ nticks = 0

InitBar == EngineIdle /\ ResolverIdle /\ CandleIdle /\ QueryIdle /\ SidecarIdle

\* bar = SyntheticCandle(start_ts, end_ts, price, volume)
CreateCandle(price, volume) ==
    /\ candle' = SyntheticCandle(0, 60, price, volume)
    /\ applied' = << [p |-> price, v |-> volume] >>
    /\ UNCHANGED <<tz, engineVars, resolverVars, view, sidecarVars>>

\* bar.update(price, volume)
UpdateCandle(price, volume) ==
    /\ Len(applied) >= 1
    /\ Len(applied) <= MaxUpdates
    /\ candle' = Update(candle, price, volume)
    /\ applied' = Append(applied, [p |-> price, v |-> volume])
    /\ UNCHANGED <<tz, engineVars, resolverVars, view, sidecarVars>>

NextBar ==
    \E price \in Prices, volume \in Volumes :
        \/ CreateCandle(price, volume)
        \/ UpdateCandle(price, volume)

SpecBar == InitBar /\ [][NextBar]_vars

RECURSIVE MaxPrice(_, _)
MaxPrice(seq, n) ==
    IF n = 1 THEN seq[1].p.v
    ELSE IF seq[n].p.v > MaxPrice(seq, n - 1) THEN seq[n].p.v ELSE MaxPrice(seq, n - 1)

RECURSIVE MinPrice(_, _)
MinPrice(seq, n) ==
    IF n = 1 THEN seq[1].p.v
    ELSE IF seq[n].p.v < MinPrice(seq, n - 1) THEN seq[n].p.v ELSE MinPrice(seq, n - 1)

RECURSIVE SumVolume(_, _)
SumVolume(seq, n) ==
    IF n = 0 THEN 0
    ELSE SumVolume(seq, n - 1) + (IF seq[n].v.some THEN seq[n].v.v ELSE 0)

\* C5: a bar created by (p0, v0) and updated by (p1, v1) .. (pn, vn) has
\* open = p0, close = pn, high = max(p0..pn), low = min(p0..pn) and
\* volume = v0 + .. + vn, an absent volume counting as 0 (prices being numbers).
C5_BarAggregates ==
    LET n == Len(applied)
    IN  (n >= 1 /\ \A i \in 1..n : ~applied[i].p.nan) =>
            /\ candle.o = applied[1].p
            /\ candle.c = applied[n].p
            /\ candle.h = Num(MaxPrice(applied, n))
            /\ candle.l = Num(MinPrice(applied, n))
            /\ candle.v = SumVolume(applied, n)

\* create at 100 with no volume, update 105 vol 2, update 95 vol 3
C5_Witness ==
    /\ applied = << [p |-> Num(100), v |-> None], [p |-> Num(105), v |-> Some(2)],
                    [p |-> Num(95), v |-> Some(3)] >>
    /\ candle.o = Num(100) /\ candle.h = Num(105) /\ candle.l = Num(95)
    /\ candle.c = Num(95) /\ candle.v = 5

-----------------------------------------------------------------------------
(* The bucket resolver on its own: _bounds_for_tf applied to a timestamp,  *)
(* and to a second one near it or at the end of the first one's bucket.    *)

\* 1969-12-31T23:59:59Z, the epoch, 00:00:59, 00:59:59, 2000-02-29, 2023-11-14,
\* 2024-02-15, 2024-02-29T23:00:00Z, 2024-07-01, 2024-12-20, 2024-12-31T23:59:59Z,
\* 2025-01-01
ResolveTimestamps ==
    {-1, 0, 59, 3599, 951782400, 1700000000, 1708000000, 1709247600, 1719792000,
     1734652800, 1735689599, 1735689600}

Deltas == {0, 1, 59, 3600}

ConfiguredTimeframes == {TF_CONFIGS[i] : i \in 1..Len(TF_CONFIGS)}

InitResolve ==
    /\ tz \in TzOffsets
    /\ constructed = TRUE
    /\ tf_configs = TF_CONFIGS
    /\ state = EmptyDict
    /\ call = NoCall
    /\ raised = "none"
    /\ nticks = 0
    /\ ResolverIdle
    /\ CandleIdle
    /\ QueryIdle
    /\ SidecarIdle

\* _bounds_for_tf(t, cfg) and _bounds_for_tf(t + d, cfg)
ResolveNear(t, d, cfg) ==
    /\ rq = NoQuery
    /\ rq' = [t1 |-> t, t2 |-> t + d, cfg |-> cfg]
    /\ r1' = BoundsForTf(Num(t), cfg)
    /\ r2' = BoundsForTf(Num(t + d), cfg)
    /\ UNCHANGED <<tz, engineVars, candle, applied, view, sidecarVars>>

\* _bounds_for_tf(t, cfg) and _bounds_for_tf at the end_ts it returned
ResolveAtEnd(t, cfg) ==
    LET b == BoundsForTf(Num(t), cfg)
    IN  /\ rq = NoQuery
        /\ b.end_ts <= MaxTimestamp
        /\ rq' = [t1 |-> t, t2 |-> b.end_ts, cfg |-> cfg]
        /\ r1' = b
        /\ r2' = BoundsForTf(Num(b.end_ts), cfg)
        /\ UNCHANGED <<tz, engineVars, candle, applied, view, sidecarVars>>

NextResolve ==
    \E t \in ResolveTimestamps, cfg \in ConfiguredTimeframes :
        \/ \E d \in Deltas : ResolveNear(t, d, cfg)
        \/ ResolveAtEnd(t, cfg)

SpecResolve == InitResolve /\ [][NextResolve]_vars

Queried == rq # NoQuery

\* C6: for a duration timeframe of size S > 0 the bounds are the epoch-aligned
\* grid cell containing t: start mod S = 0, end = start + S, start <= t < end;
\* a timestamp of the same cell resolves to the same bounds, one of the next
\* cell to a start exactly S greater.
C6_DurationGrid ==
    (Queried /\ rq.cfg.kind = "duration" /\ rq.cfg.size_seconds.v > 0) =>
        LET S == rq.cfg.size_seconds.v
        IN  /\ r1.raised = "none" /\ r2.raised = "none"
            /\ r1.start_ts % S = 0
            /\ r1.end_ts = r1.start_ts + S
            /\ r1.start_ts <= rq.t1 /\ rq.t1 < r1.end_ts
            /\ r2.start_ts % S = 0
            /\ r2.end_ts = r2.start_ts + S
            /\ r2.start_ts <= rq.t2 /\ rq.t2 < r2.end_ts
            /\ (r1.start_ts <= rq.t2 /\ rq.t2 < r1.end_ts) => r2 = r1
            /\ (r1.end_ts <= rq.t2 /\ rq.t2 < r1.end_ts + S) => r2.start_ts = r1.start_ts + S

\* a negative timestamp on the one-minute grid, and the next cell resolved
C6_Witness ==
    /\ Queried /\ rq.cfg.name = "1m" /\ rq.t1 = -1
    /\ r1.start_ts = -60 /\ r1.end_ts = 0
    /\ rq.t2 = 0 /\ r2.start_ts = 0

\* the UTC calendar date of a timestamp, and the timestamp of a UTC date's midnight
UtcDate(t) == CivilFromDays(t \div 86400)

UtcMidnight(y, m, d) == DaysFromCivil(y, m, d) * 86400

\* C7: calendar bounds are computed in UTC and contain t (start <= t < end);
\* a timestamp exactly on a boundary resolves to start = t; for Day the start is
\* UTC midnight of t's date and end = start + 86400; whatever the local zone.
C7_CalendarUtcHalfOpen ==
    (Queried /\ rq.cfg.kind = "calendar") =>
        /\ r1.start_ts <= rq.t1 /\ rq.t1 < r1.end_ts
        /\ r2.start_ts <= rq.t2 /\ rq.t2 < r2.end_ts
        /\ rq.t2 = r1.end_ts => r2.start_ts = rq.t2
        /\ rq.cfg.calendar_type = "day" =>
              /\ r1.start_ts = rq.t1 - (rq.t1 % 86400)
              /\ r1.end_ts = r1.start_ts + 86400

\* C8: Month resolves to [first of m, first of m+1) and Quarter to the 3-month
\* block containing m, December and Oct-Dec ending on January 1 of y+1; the
\* end of one bucket is the start of the next.
C8_MonthQuarter ==
    (Queried /\ rq.cfg.calendar_type \in {"month", "quarter"}) =>
        LET date  == UtcDate(rq.t1)
            y     == date.year
            first == IF rq.cfg.calendar_type = "month" THEN date.month
                     ELSE 1 + 3 * ((date.month - 1) \div 3)
            len   == IF rq.cfg.calendar_type = "month" THEN 1 ELSE 3
        IN  /\ r1.start_ts = UtcMidnight(y, first, 1)
            /\ r1.end_ts = IF first + len > 12 THEN UtcMidnight(y + 1, 1, 1)
                           ELSE UtcMidnight(y, first + len, 1)
            /\ rq.t2 = r1.end_ts => (r2.start_ts = r1.end_ts /\ r2.end_ts > r2.start_ts)

\* C9: a MultiYear timeframe of span n > 0 resolves a timestamp of year y to
\* [Jan 1 of b, Jan 1 of b + n) with b = floor(y / n) * n.
C9_MultiYear ==
    (Queried /\ rq.cfg.calendar_type = "multi-year" /\ rq.cfg.years_span.v > 0) =>
        LET n == rq.cfg.years_span.v
            b == (UtcDate(rq.t1).year \div n) * n
        IN  /\ r1.start_ts = UtcMidnight(b, 1, 1)
            /\ r1.end_ts = UtcMidnight(b + n, 1, 1)

-----------------------------------------------------------------------------
(* Construction: SyntheticEngine(tf_configs) with any list of descriptors  *)

NoSize == TimeframeConfig("nosize", "duration", None, "none", None)

NoSpan == TimeframeConfig("nospan", "calendar", None, "multi-year", None)

ConfigLists ==
    { << >>,
      << Duration("1m", 60), Calendar("day", "day"), MultiYear("5y", 5) >>,
      << Duration("1m", 60), Duration("1m", 300) >>,
      << Duration("1m", 60), Duration("zero", 0), Calendar("day", "day") >>,
      << Duration("1m", 60), NoSize, Calendar("day", "day") >>,
      << Duration("neg", -60), Calendar("day", "day") >>,
      << Calendar("day", "day"), MultiYear("0y", 0) >>,
      << Calendar("day", "day"), NoSpan >>,
      << Calendar("day", "day"), MultiYear("-5y", -5) >> }

InitCfg ==
    /\ tz \in TzOffsets
    /\ constructed = FALSE
    /\ tf_configs = << >>
    /\ state = EmptyDict
    /\ call = NoCall
    /\ raised = "none"
    /\ nticks = 0
    /\ ResolverIdle
    /\ CandleIdle
    /\ QueryIdle
    /\ SidecarIdle

\* SyntheticEngine.__init__(tf_configs)
Construct(list) ==
    /\ ~constructed
    /\ constructed' = TRUE
    /\ state' = EmptyDict
    /\ tf_configs' = ConfigDict(list, Len(list))
    /\ UNCHANGED <<tz, call, raised, nticks, resolverVars, candle, applied, view, sidecarVars>>

NextCfg ==
    \/ \E list \in ConfigLists : Construct(list)
    \/ \E symbol \in Symbols, t \in Ticks : IngestTick(symbol, t.price, t.volume, t.ts)

SpecCfg == InitCfg /\ [][NextCfg]_vars

\* a descriptor whose fields fit its kind
ValidDescriptor(cfg) ==
    /\ cfg.kind = "duration" => (cfg.size_seconds.some /\ cfg.size_seconds.v > 0)
    /\ (cfg.kind = "calendar" /\ cfg.calendar_type = "multi-year")
          => (cfg.years_span.some /\ cfg.years_span.v > 0)

\* C10: a descriptor with an invalid kind/fields combination is rejected at
\* construction: no engine holds one, and no bar is ever resolved with one.
C10_InvalidDescriptorRejected ==
    /\ constructed => \A i \in 1..Len(tf_configs) : ValidDescriptor(tf_configs[i])
    /\ \A s \in DOMAIN state : \A n \in DOMAIN state[s] :
          \A i \in 1..Len(tf_configs) : tf_configs[i].name = n => ValidDescriptor(tf_configs[i])

-----------------------------------------------------------------------------
(* Snapshots: SyntheticCandle.to_dict and SyntheticEngine.get_candle.  The *)
(* wall clock (time.time()) is an input of every call.                     *)

\* max(a, b) on integers
PyMax(a, b) == IF a >= b THEN a ELSE b

\* start_dt.strftime("%Y-%m-%dT%H:%M:%SZ"): the fields the string is made of
IsoStart(start_ts) ==
    LET dt == UtcFromTimestamp(start_ts)
    IN  [year |-> dt.year, month |-> dt.month, day |-> dt.day,
         hour |-> dt.sod \div 3600, minute |-> (dt.sod % 3600) \div 60,
         second |-> dt.sod % 60]

\* now_ts or time.time(): None and 0 are both falsy
NowOrWall(now_ts, wall) == IF now_ts.some /\ now_ts.v # 0 THEN now_ts.v ELSE wall

\* SyntheticCandle.to_dict(now_ts), time.time() being wall
ToDict(bar, now_ts, wall) ==
    LET now     == NowOrWall(now_ts, wall)
        elapsed == PyMax(0, now - bar.start_ts)
        total   == PyMax(1, bar.end_ts - bar.start_ts)
    IN  [t |-> IsoStart(bar.start_ts),
         o |-> bar.o, h |-> bar.h, l |-> bar.l, c |-> bar.c, v |-> bar.v,
         elapsed |-> elapsed,
         remaining |-> PyMax(0, total - elapsed),
         complete |-> now >= bar.end_ts]

\* a slip: an unknown timeframe name falls back to the default "1m"
GetCandle_DefaultTf(st, symbol, tf_name, wall) ==
    IF symbol \notin DOMAIN st \/ DOMAIN st[symbol] = {} THEN NoneDict
    ELSE IF tf_name \in DOMAIN st[symbol]
    THEN [some |-> TRUE, d |-> ToDict(st[symbol][tf_name], None, wall)]
    ELSE IF "1m" \in DOMAIN st[symbol]
    THEN [some |-> TRUE, d |-> ToDict(st[symbol]["1m"], None, wall)]
    ELSE NoneDict

\* SyntheticEngine.get_candle(symbol, tf_name) on the state st
GetCandle(st, symbol, tf_name, wall) ==
    IF symbol \notin DOMAIN st \/ DOMAIN st[symbol] = {} THEN NoneDict
    ELSE IF tf_name \notin DOMAIN st[symbol] THEN NoneDict
    ELSE [some |-> TRUE, d |-> ToDict(st[symbol][tf_name], None, wall)]

\* a symbol that is ticked and one that never is
QuerySymbols == {"AAPL", "MSFT"}

QueryTimeframes == {"1s", "week", "bogus"}

\* 2025-01-01T00:00:01Z and an hour later
WallClocks == {1735689601, 1735693200}

\* not supplied, zero, before every bar, 2024-12-31T23:59:59Z, 2025-01-08
NowArgs == {None, Some(0), Some(1), Some(1735689599), Some(1736294400)}

\* engine.get_candle(symbol, tf_name); state.get creates no key
CallGetCandle(symbol, tf_name, wall) ==
    /\ constructed
    /\ wall >= view.wall
    /\ view' = [op |-> "get_candle", symbol |-> symbol, tf_name |-> tf_name,
                now_ts |-> None, wall |-> wall, at |-> nticks,
                result |-> GetCandle(state, symbol, tf_name, wall)]
    /\ UNCHANGED <<tz, engineVars, resolverVars, candle, applied, sidecarVars>>

\* engine.state[symbol][tf_name].to_dict(now_ts)
CallToDict(symbol, tf_name, now_ts, wall) ==
    /\ Held(state, symbol, tf_name)
    /\ wall >= view.wall
    /\ view' = [op |-> "to_dict", symbol |-> symbol, tf_name |-> tf_name,
                now_ts |-> now_ts, wall |-> wall, at |-> nticks,
                result |-> [some |-> TRUE,
                            d |-> ToDict(state[symbol][tf_name], now_ts, wall)]]
    /\ UNCHANGED <<tz, engineVars, resolverVars, candle, applied, sidecarVars>>

\* ticks first, then any number of queries
NextQuery ==
    \/ \E t \in Ticks :
          view = NoView /\ IngestTick("AAPL", t.price, t.volume, t.ts)
    \/ \E symbol \in QuerySymbols, tf_name \in QueryTimeframes, wall \in WallClocks :
          \/ CallGetCandle(symbol, tf_name, wall)
          \/ \E now_ts \in NowArgs : CallToDict(symbol, tf_name, now_ts, wall)

SpecQuery == Init /\ [][NextQuery]_vars

\* C13: get_candle returns None exactly when (symbol, tf) holds no bar: for a
\* symbol never ticked, and for a name that is not configured, before and
\* after ticks for the symbol; otherwise it returns the held bar's snapshot.
C13_AbsentIffNoBar ==
    view.op = "get_candle" =>
        /\ view.result.some <=> Held(state, view.symbol, view.tf_name)
        /\ view.symbol \notin DOMAIN state => ~view.result.some
        /\ view.tf_name \notin ConfiguredNames => ~view.result.some
        /\ view.result.some =>
              LET bar == state[view.symbol][view.tf_name]
                  d   == view.result.d
              IN  /\ d.o = bar.o /\ d.h = bar.h /\ d.l = bar.l /\ d.c = bar.c
                  /\ d.v = bar.v
                  /\ d.t = IsoStart(bar.start_ts)

\* after three ticks for AAPL an unconfigured name still returns None
C13_Witness ==
    /\ view.op = "get_candle" /\ view.symbol = "AAPL" /\ view.tf_name = "bogus"
    /\ ~view.result.some
    /\ nticks = 3 /\ Held(state, "AAPL", "1s") /\ Held(state, "AAPL", "week")

\* C15: for a query time nowTs supplied by the caller (0 and times before
\* startTs included) the snapshot has elapsed = max(0, nowTs - startTs),
\* remaining = max(0, max(1, endTs - startTs) - elapsed) and
\* complete = (nowTs >= endTs).
C15_SnapshotOfQueryTime ==
    (view.op = "to_dict" /\ view.now_ts.some) =>
        LET bar     == state[view.symbol][view.tf_name]
            nowTs   == view.now_ts.v
            elapsed == IF nowTs - bar.start_ts > 0 THEN nowTs - bar.start_ts ELSE 0
            total   == IF bar.end_ts - bar.start_ts > 1 THEN bar.end_ts - bar.start_ts ELSE 1
        IN  /\ view.result.d.elapsed = elapsed
            /\ view.result.d.remaining = (IF total - elapsed > 0 THEN total - elapsed ELSE 0)
            /\ view.result.d.complete = (nowTs >= bar.end_ts)

\* C16: a query leaves the engine state unchanged, symbol keys included, and
\* repeating a query with the same nowTs and no tick in between returns the
\* same snapshot.
C16_QueriesIdempotent ==
    [][ view' # view =>
          /\ state' = state /\ tf_configs' = tf_configs
          /\ ( /\ view.op = view'.op /\ view.symbol = view'.symbol
               /\ view.tf_name = view'.tf_name /\ view.at = view'.at
               /\ \/ view.now_ts.some /\ view'.now_ts = view.now_ts
                  \/ ~view.now_ts.some /\ ~view'.now_ts.some /\ view'.wall = view.wall )
             => view'.result = view.result
      ]_vars

-----------------------------------------------------------------------------
(* The sidecar: ws_loop and the HTTP handlers, coroutines of one event     *)
(* loop.  A coroutine runs until it awaits; ws_loop awaits at connect,     *)
(* send, recv and sleep, and the handlers never suspend (the queue is      *)
(* unbounded, so put returns at once).  Between two awaits ws_loop is      *)
(* modelled statement by statement.                                        *)

\* connections and messages per run
MaxConnects == 2

MaxMessages == 2

\* a slip: update yields to the event loop between its statements
Suspended_InUpdate(pc) == pc \in {"connect", "subscribe", "send", "recv", "sleep", "update"}

\* ws_loop is suspended at an await: only then does the loop run a handler
Suspended(pc) == pc \in {"connect", "subscribe", "send", "recv", "sleep"}

\* json.dumps({"type": "subscribe", "symbol": symbol})
Subscribe(symbol) == [type |-> "subscribe", symbol |-> symbol]

\* a slip: nothing is subscribed at connect time
ListOfSubs_Nothing(subs) == {}

\* list(SUBS), iterated in any order
ListOfSubs(subs) == subs

\* ensure_subscribed(symbol): SUBS and pending_subs after the call
EnsureSubscribed(subs, queue, symbol) ==
    IF symbol \notin subs
    THEN [SUBS |-> subs \cup {symbol}, pending_subs |-> Append(queue, Subscribe(symbol))]
    ELSE [SUBS |-> subs, pending_subs |-> queue]

\* a trade of a feed message: d["s"], d["p"], d["v"] when present, and d["t"] in
\* milliseconds, held as whole seconds and the milliseconds beyond them
\* (t = sec * 1000 + ms, a product beyond 32-bit integers)
Trade(s, p, v, t, ms) == [s |-> s, p |-> p, v |-> v, t |-> [nan |-> t.nan, sec |-> t.v, ms |-> ms]]

\* d.get("v", 0.0)
GetV(d) == IF d.v.some THEN d.v ELSE Some(0)

\* d["t"] // 1000
MsToSeconds(t) == IF t.nan THEN NaN ELSE Num(t.sec + t.ms \div 1000)

Message(data) == [data |-> data]

\* a first trade, an update and a rollover in one message, a trade of another
\* symbol, a trade whose timestamp is not a number, and a message without data
Messages ==
    { Message(<< Trade("AAPL", Num(100), None, T1, 250) >>),
      Message(<< Trade("AAPL", Num(105), Some(2), T1, 999),
                 Trade("AAPL", Num(95), Some(3), T2, 0) >>),
      Message(<< Trade("QQQ", Num(95), Some(3), T2, 1) >>),
      Message(<< Trade("QQQ", Num(105), Some(3), NaN, 0) >>),
      Message(<< >>) }

\* the loop's locals once no tick is in hand
Rest(w) == [w EXCEPT !.sym = "", !.px = NaN, !.vol = None, !.ts = NaN,
                     !.i = 0, !.f = 0, !.pre = NoBar]

\* an exception reaches `except Exception`: the connection is left and the loop sleeps
Fail(w) == [Rest(w) EXCEPT !.pc = "sleep", !.todo = {}, !.cmd = NoCmd, !.data = << >>]

\* pending_subs.get_nowait() and what follows: a command to send, or recv
Drain(w, queue) ==
    IF queue = << >>
    THEN [ws |-> [w EXCEPT !.pc = "recv", !.cmd = NoCmd], pending_subs |-> queue]
    ELSE [ws |-> [w EXCEPT !.pc = "send", !.cmd = Head(queue)], pending_subs |-> Tail(queue)]

\* websockets.connect(WS_URL) returns or raises
WsConnect(ok) ==
    /\ ws.pc = "connect"
    /\ ws.conn < MaxConnects
    /\ IF ok
       THEN LET w == [ws EXCEPT !.conn = @ + 1, !.at_connect = SUBS,
                                !.todo = ListOfSubs(SUBS), !.sent = {}]
                r == Drain(w, pending_subs)
            IN  IF w.todo # {}
                THEN ws' = [w EXCEPT !.pc = "subscribe"] /\ UNCHANGED pending_subs
                ELSE ws' = r.ws /\ pending_subs' = r.pending_subs
       ELSE ws' = Fail(ws) /\ UNCHANGED pending_subs
    /\ UNCHANGED <<tz, engineVars, resolverVars, candle, applied, view, SUBS, tick, resp>>

\* ws.send of the subscribe command of s, one of list(SUBS), returns or raises
WsSendSubscribed(s, ok) ==
    /\ ws.pc = "subscribe"
    /\ s \in ws.todo
    /\ IF ok
       THEN LET w == [ws EXCEPT !.sent = @ \cup {s}, !.todo = @ \ {s}]
                r == Drain(w, pending_subs)
            IN  IF w.todo # {}
                THEN ws' = w /\ UNCHANGED pending_subs
                ELSE ws' = r.ws /\ pending_subs' = r.pending_subs
       ELSE ws' = Fail(ws) /\ UNCHANGED pending_subs
    /\ UNCHANGED <<tz, engineVars, resolverVars, candle, applied, view, SUBS, tick, resp>>

\* ws.send(cmd) of the dequeued command returns or raises
WsSendCmd(ok) ==
    /\ ws.pc = "send"
    /\ IF ok
       THEN ws' = [ws EXCEPT !.pc = "recv", !.sent = @ \cup {ws.cmd.symbol}, !.cmd = NoCmd]
       ELSE ws' = Fail([ws EXCEPT !.failed = @ \cup {ws.cmd.symbol}])
    /\ UNCHANGED <<tz, engineVars, resolverVars, candle, applied, view, SUBS, pending_subs,
                   tick, resp>>

\* ws.recv() returns a message: the feed sends trades of subscribed symbols only
WsRecv(msg) ==
    /\ ws.pc = "recv"
    /\ ws.nrecv < MaxMessages
    /\ \A k \in 1..Len(msg.data) : msg.data[k].s \in ws.sent
    /\ ws' = [ws EXCEPT !.pc = "data", !.data = msg.data, !.nrecv = @ + 1]
    /\ resp' = NoResp
    /\ UNCHANGED <<tz, engineVars, resolverVars, candle, applied, view, SUBS, pending_subs,
                   tick>>

\* ws.recv() raises: the connection was closed
WsRecvClosed ==
    /\ ws.pc = "recv"
    /\ ws' = Fail(ws)
    /\ UNCHANGED <<tz, engineVars, resolverVars, candle, applied, view, SUBS, pending_subs,
                   tick, resp>>

\* for d in data: the next trade is read and tick[sym] set, and ingest_tick is
\* entered; with no trade left the loop goes back to the queue
WsNextTick ==
    /\ ws.pc = "data"
    /\ IF ws.data = << >>
       THEN LET r == Drain(ws, pending_subs)
            IN  /\ ws' = r.ws
                /\ pending_subs' = r.pending_subs
                /\ UNCHANGED tick
       ELSE LET d  == Head(ws.data)
                ts == MsToSeconds(d.t)
            IN  /\ tick' = SetItem(tick, d.s, [symbol |-> d.s, price |-> d.p, ts |-> ts])
                /\ ws' = IF Len(tf_configs) = 0
                         THEN [ws EXCEPT !.data = Tail(@)]
                         ELSE [ws EXCEPT !.data = Tail(@), !.pc = "ingest", !.sym = d.s,
                                         !.px = d.p, !.vol = GetV(d), !.ts = ts, !.i = 1]
                /\ UNCHANGED pending_subs
    /\ UNCHANGED <<tz, engineVars, resolverVars, candle, applied, view, SUBS, resp>>

\* the loop's frame after the iteration of timeframe i
NextTimeframe(w) ==
    IF w.i = Len(tf_configs) THEN [Rest(w) EXCEPT !.pc = "data"]
    ELSE [w EXCEPT !.pc = "ingest", !.i = @ + 1, !.f = 0, !.pre = NoBar]

\* one iteration of ingest_tick's loop, up to the new bar being stored or
\* update being entered
WsIngestStep ==
    /\ ws.pc = "ingest"
    /\ LET cfg == tf_configs[ws.i]
           b   == BoundsForTf(ws.ts, cfg)
           st  == GetOrCreate(state, ws.sym)
       IN  IF b.raised # "none"
           THEN ws' = Fail(ws) /\ UNCHANGED state
           ELSE IF NeedsNewBar(st[ws.sym], cfg.name, b)
           THEN /\ state' = SetItem(st, ws.sym,
                               SetItem(st[ws.sym], cfg.name,
                                       SyntheticCandle(b.start_ts, b.end_ts, ws.px, ws.vol)))
                /\ ws' = NextTimeframe(ws)
           ELSE /\ state' = st
                /\ ws' = [ws EXCEPT !.pc = "update", !.f = 1, !.pre = st[ws.sym][cfg.name]]
    /\ UNCHANGED <<tz, constructed, tf_configs, call, raised, nticks, resolverVars, candle,
                   applied, view, SUBS, pending_subs, tick, resp>>

\* one statement of SyntheticCandle.update on the bar in hand: c, h, l, v
WsUpdateStep ==
    /\ ws.pc = "update"
    /\ LET name == tf_configs[ws.i].name
           bar  == state[ws.sym][name]
           new  == IF ws.f = 1 THEN [bar EXCEPT !.c = ws.px]
                   ELSE IF ws.f = 2 THEN [bar EXCEPT !.h = IF FGt(ws.px, bar.h) THEN ws.px ELSE @]
                   ELSE IF ws.f = 3 THEN [bar EXCEPT !.l = IF FLt(ws.px, bar.l) THEN ws.px ELSE @]
                   ELSE [bar EXCEPT !.v = @ + VolumeOrZero(ws.vol)]
       IN  /\ state' = SetItem(state, ws.sym, SetItem(state[ws.sym], name, new))
           /\ ws' = IF ws.f = 4 THEN NextTimeframe(ws) ELSE [ws EXCEPT !.f = @ + 1]
    /\ UNCHANGED <<tz, constructed, tf_configs, call, raised, nticks, resolverVars, candle,
                   applied, view, SUBS, pending_subs, tick, resp>>

\* asyncio.sleep(3) is over: back to connect
WsSleep ==
    /\ ws.pc = "sleep"
    /\ ws' = [ws EXCEPT !.pc = "connect"]
    /\ UNCHANGED <<tz, engineVars, resolverVars, candle, applied, view, SUBS, pending_subs,
                   tick, resp>>

\* the wall clock of the requests: 2025-01-01T01:00:00Z
RequestClocks == {1735693200}

\* a piece of the tfs parameter between two commas: a name within blanks
Piece(lead, name, trail) == [lead |-> lead, name |-> name, trail |-> trail]

\* x.strip()
Strip(piece) == piece.name

\* [x.strip() for x in tfs.split(",") if x.strip()]
TfList(tfs) ==
    LET kept == SelectSeq(tfs, LAMBDA x : Strip(x) # "")
    IN  [k \in 1..Len(kept) |-> Strip(kept[k])]

\* "1s,5s,1m,5m,15m,1h,day,week,month,quarter,year,5y"
DefaultTfs ==
    << Piece(0, "1s", 0), Piece(0, "5s", 0), Piece(0, "1m", 0), Piece(0, "5m", 0),
       Piece(0, "15m", 0), Piece(0, "1h", 0), Piece(0, "day", 0), Piece(0, "week", 0),
       Piece(0, "month", 0), Piece(0, "quarter", 0), Piece(0, "year", 0), Piece(0, "5y", 0) >>

\* " 1m ,,bogus,2y,1m"
OtherTfs ==
    << Piece(1, "1m", 1), Piece(0, "", 0), Piece(0, "bogus", 0), Piece(0, "2y", 0),
       Piece(0, "1m", 0) >>

\* the result dict of synthetic_grid: the requested names get_candle has a bar for
Grid(st, symbol, tf_list, wall) ==
    [n \in {tf_list[k] : k \in {j \in 1..Len(tf_list) :
                                   GetCandle(st, symbol, tf_list[j], wall).some}}
       |-> GetCandle(st, symbol, n, wall).d]

\* GET /live/price
LivePrice(symbol) ==
    /\ Suspended(ws.pc)
    /\ LET e == EnsureSubscribed(SUBS, pending_subs, symbol)
       IN  SUBS' = e.SUBS /\ pending_subs' = e.pending_subs
    /\ resp' = [op |-> "live_price", symbol |-> symbol, tfs |-> << >>, wall |-> 0,
                status |-> IF symbol \in DOMAIN tick THEN 200 ELSE 404,
                body |-> IF symbol \in DOMAIN tick THEN tick[symbol] ELSE << >>]
    /\ UNCHANGED <<tz, engineVars, resolverVars, candle, applied, view, tick, ws>>

\* GET /live/candle (tf left to its default "1m") and GET /synthetic/candle
CandleRequest(op, symbol, tf, wall) ==
    /\ Suspended(ws.pc)
    /\ LET e == EnsureSubscribed(SUBS, pending_subs, symbol)
       IN  SUBS' = e.SUBS /\ pending_subs' = e.pending_subs
    /\ LET bar == GetCandle(state, symbol, tf, wall)
       IN  resp' = [op |-> op, symbol |-> symbol, tfs |-> tf, wall |-> wall,
                    status |-> IF bar.some THEN 200 ELSE 404,
                    body |-> bar.d]
    /\ UNCHANGED <<tz, engineVars, resolverVars, candle, applied, view, tick, ws>>

LiveCandle(symbol, wall) == CandleRequest("live_candle", symbol, "1m", wall)

SyntheticCandleRequest(symbol, tf, wall) == CandleRequest("synthetic_candle", symbol, tf, wall)

\* GET /synthetic/grid
SyntheticGrid(symbol, tfs, wall) ==
    /\ Suspended(ws.pc)
    /\ LET e == EnsureSubscribed(SUBS, pending_subs, symbol)
       IN  SUBS' = e.SUBS /\ pending_subs' = e.pending_subs
    /\ LET result == Grid(state, symbol, TfList(tfs), wall)
       IN  resp' = [op |-> "synthetic_grid", symbol |-> symbol, tfs |-> tfs, wall |-> wall,
                    status |-> IF DOMAIN result = {} THEN 404 ELSE 200,
                    body |-> result]
    /\ UNCHANGED <<tz, engineVars, resolverVars, candle, applied, view, tick, ws>>

\* ws_loop, the feed sending messages of the set msgs
WsLoopOn(msgs) ==
    \/ \E ok \in BOOLEAN : WsConnect(ok)
    \/ \E s \in Symbols, ok \in BOOLEAN : WsSendSubscribed(s, ok)
    \/ \E ok \in BOOLEAN : WsSendCmd(ok)
    \/ \E msg \in msgs : WsRecv(msg)
    \/ WsRecvClosed
    \/ WsNextTick
    \/ WsIngestStep
    \/ WsUpdateStep
    \/ WsSleep

Handlers ==
    \E symbol \in Symbols, wall \in RequestClocks :
        \/ LivePrice(symbol)
        \/ LiveCandle(symbol, wall)
        \/ \E tf \in {"week", "bogus"} : SyntheticCandleRequest(symbol, tf, wall)
        \/ \E tfs \in {DefaultTfs, OtherTfs} : SyntheticGrid(symbol, tfs, wall)

NextSidecar == WsLoopOn(Messages) \/ Handlers

\* the process at module load, on a host whose local zone is UTC: the zone
\* reaches the calendar bounds alone, which are settled on the resolver
InitSidecar == Init /\ tz = 0

SpecSidecar == InitSidecar /\ [][NextSidecar]_vars

\* the five values of a bar that a snapshot carries
Ohlcv(b) == <<b.o, b.h, b.l, b.c, b.v>>

\* the step is a request that returned a candle or a grid
CandleRead ==
    /\ resp' # resp
    /\ resp'.op \in {"live_candle", "synthetic_candle", "synthetic_grid"}
    /\ resp'.status = 200

\* the versions of the bar of (symbol, tf_name) at this moment: the bar held,
\* or, while update is at work on it, the bar before and after the tick
Versions(symbol, tf_name) ==
    IF ws.pc = "update" /\ ws.sym = symbol /\ tf_configs[ws.i].name = tf_name
    THEN {Ohlcv(ws.pre), Ohlcv(Update(ws.pre, ws.px, ws.vol))}
    ELSE {Ohlcv(state[symbol][tf_name])}

\* C11: a reader never observes a partially mutated bar: every snapshot a
\* request returns for (symbol, timeframe) is the bar entirely before or
\* entirely after a tick was applied, o, h, l, c, v of one version.
C11_AtomicSnapshot ==
    [][ CandleRead =>
          IF resp'.op = "synthetic_grid"
          THEN \A n \in DOMAIN resp'.body :
                  Ohlcv(resp'.body[n]) \in Versions(resp'.symbol, n)
          ELSE Ohlcv(resp'.body) \in Versions(resp'.symbol, resp'.tfs)
      ]_vars

\* with ws_loop back at recv, a request reads the week bar that the second
\* message updated twice in place
C11_Witness ==
    /\ ws.pc = "recv" /\ ws.nrecv = 2
    /\ resp.op = "synthetic_candle" /\ resp.symbol = "AAPL" /\ resp.tfs = "week"
    /\ resp.status = 200
    /\ Ohlcv(resp.body) = <<Num(100), Num(105), Num(95), Num(95), 5>>

\* C14: the mapping returned for a symbol (the grid asked with the symbol
\* alone) has exactly the configured timeframe names that hold a bar for the
\* symbol as keys, each mapped to that bar's snapshot.
C14_GridHasEveryHeldTimeframe ==
    (resp.op = "synthetic_grid" /\ resp.tfs = DefaultTfs) =>
        /\ DOMAIN resp.body = {n \in ConfiguredNames : Held(state, resp.symbol, n)}
        /\ \A n \in DOMAIN resp.body :
              Ohlcv(resp.body[n]) = Ohlcv(state[resp.symbol][n])

QueuedSymbols == {pending_subs[k].symbol : k \in 1..Len(pending_subs)}

\* ws_loop is past connect-time subscription, in its inner loop
InInnerLoop == ws.pc \in {"send", "recv", "data", "ingest", "update"}

\* C20: SUBS only grows; a symbol is put on pending_subs only when it enters
\* SUBS, so at most once; on every connection the subscribe command of every
\* symbol that was in SUBS at connect time is sent before the inner loop is
\* entered, so before any feed message is processed; a queued or dequeued
\* command is of a symbol in SUBS, so one whose send failed is subscribed
\* again by the next connection.
C20_SubscriptionBookkeeping ==
    [][ /\ SUBS \subseteq SUBS'
        /\ Len(pending_subs') > Len(pending_subs) =>
              /\ pending_subs' = Append(pending_subs, pending_subs'[Len(pending_subs')])
              /\ pending_subs'[Len(pending_subs')].symbol \notin SUBS
              /\ pending_subs'[Len(pending_subs')].symbol \in SUBS'
        /\ \A k \in 1..Len(pending_subs') : \A j \in 1..Len(pending_subs') :
              pending_subs'[k].symbol = pending_subs'[j].symbol => k = j
        /\ InInnerLoop' => ws'.at_connect \subseteq ws'.sent
        /\ ws'.nrecv > ws.nrecv => ws.at_connect \subseteq ws.sent
        /\ QueuedSymbols' \subseteq SUBS'
        /\ ws'.failed \subseteq SUBS'
        /\ ws'.cmd # NoCmd => ws'.cmd.symbol \in SUBS'
        /\ ws'.at_connect \subseteq SUBS'
      ]_vars

\* the send of a dequeued command failed on the first connection; the second
\* connection has subscribed the symbol again and is receiving
C20_Witness ==
    /\ ws.conn = 2 /\ ws.pc = "recv"
    /\ ws.failed # {} /\ ws.failed \subseteq ws.at_connect
    /\ ws.failed \subseteq ws.sent
    /\ pending_subs = << >>

-----------------------------------------------------------------------------
(* Liveness of the subscribe commands.  The event loop resumes ws_loop when  *)
(* what it awaits is done, and connects, sends and sleeps end; whether the   *)
(* feed sends a message is up to the feed.                                   *)

\* a feed with little to say: one trade, or a message without data
QuietFeed ==
    { Message(<< Trade("AAPL", Num(100), None, T1, 250) >>), Message(<< >>) }

NextFeed ==
    \/ WsLoopOn(QuietFeed)
    \/ \E symbol \in Symbols : LivePrice(symbol)

\* the steps ws_loop takes without a message from the feed
WsRuns ==
    \/ WsConnect(TRUE)
    \/ \E s \in Symbols : WsSendSubscribed(s, TRUE)
    \/ WsSendCmd(TRUE)
    \/ WsNextTick
    \/ WsUpdateStep
    \/ WsSleep

\* ingest_tick's loop is straight-line code, enabled whenever ws_loop is in it
\* and the only step possible there: weak fairness of WsIngestStep says that
\* ws_loop does not stay in it forever
IngestRuns == []<>(ws.pc # "ingest")

SpecFeedLive == InitSidecar /\ [][NextFeed]_vars /\ WF_vars(WsRuns) /\ IngestRuns

ConnectionOpen == ws.pc \in {"subscribe", "send", "recv", "data", "ingest", "update"}

\* C19: while a connection is open, a subscribe command put on pending_subs
\* is eventually sent on that connection, also when the feed delivers no
\* message (the run's budget of messages not being what stops it).
C19_QueuedCommandSent ==
    \A s \in Symbols :
        (s \in QueuedSymbols /\ ConnectionOpen /\ ws.nrecv < MaxMessages)
            ~> (s \in ws.sent \/ ~ConnectionOpen \/ ws.nrecv = MaxMessages)

====
